---- MODULE Spec2Model ----
(***************************************************************************)
(* Model of web.py: the webhook endpoint, the text handler with its        *)
(* sliding-window rate limiter, the best-effort audit insert and the       *)
(* TMDB -> OMDB lookup chain behind the in-process TTL cache.              *)
(*                                                                         *)
(* Time is the value datetime.utcnow() returns, in whole seconds.  Every   *)
(* `await` of the source is a suspension point: a request is at one of     *)
(* them (its pc) and the code between two awaits is one atomic action.     *)
(***************************************************************************)
EXTENDS Integers, Sequences, FiniteSets, TLC

\* ---------------------------------------------------------------- constants

RL_WINDOW == 30

RL_LIMIT == 15

CACHE_TTL_SECONDS == 900

BOT_TOKEN == "bot-token"

WEBHOOK_SECRET == "wh_dev"

\* ------------------------------------------------------------------- bounds

\* clock advances in a behaviour of Spec
MaxTicks == 2

\* clock advances in a behaviour of SpecRL
MaxRLTicks == 1

\* rate_limited calls in a behaviour of SpecRL
MaxCalls == 16

\* webhook requests in a behaviour of Spec
MaxRequests == 2

\* ------------------------------------------------------------------- inputs

\* user ids the rate limiter is called with (0 stands for "no effective user")
Uids == {0, 1}

\* clock advances of SpecRL: inside the window, onto its edge, past it
RLSteps == {1, RL_WINDOW, RL_WINDOW + 1}

\* clock advances of Spec: half a TTL, so that a second advance lands on the
\* expiry of an entry stored before the first
Steps == {CACHE_TTL_SECONDS \div 2}

\* path tokens and ?secret= values of inbound requests ("" : no secret given)
Tokens == {BOT_TOKEN, "bad-token"}

Secrets == {WEBHOOK_SECRET, ""}

\* update.effective_user: <<>> for None, <<id>> for a user
Senders == {<<1>>}

\* update.message.text, as sequences of characters
Texts == {<<" ", "A", "b", " ">>}

\* two spellings of one title that differ in letter case only
CaseTexts == {<<"A", "b">>, <<"a", "B">>}

\* what the TMDB search endpoint answers with: r.json()
TmdbData ==
    { [results |-> <<>>],
      [results |-> <<[poster_path |-> "/abc.jpg"]>>],
      [results |-> <<[poster_path |-> ""], [poster_path |-> "/xyz.jpg"]>>] }

\* what the OMDB endpoint answers with: r.json()
OmdbData ==
    { [Response |-> "False", Poster |-> ""],
      [Response |-> "True", Poster |-> "N/A"],
      [Response |-> "True", Poster |-> "http://img/p.jpg"] }

VARIABLES
    now,          \* datetime.utcnow(), seconds
    ticks,        \* clock advances so far
    TMDB_API_KEY, \* "" when the environment sets none
    OMDB_API_KEY, \* "" when the environment sets none
    db,           \* TRUE when startup() opened the database
    cache,        \* key -> CacheItem; DOMAIN = the keys of the dict
    user_events,  \* uid -> deque of timestamps; DOMAIN = the keys of the defaultdict
    req,          \* task -> the request it handles: inputs, position, locals
    nreq,         \* webhook requests so far
    accepted,     \* history: uid -> every timestamp rate_limited appended for it
    ret,          \* the direct rate_limited call that just returned: <<uid, value>>, or <<>>
    ncalls        \* direct rate_limited calls so far

vars ==
    <<now, ticks, TMDB_API_KEY, OMDB_API_KEY, db, cache, user_events, req, nreq,
      accepted, ret, ncalls>>

config == <<TMDB_API_KEY, OMDB_API_KEY, db>>

\* ------------------------------------------------------------- rate limiter

\* user_events[uid] of a defaultdict(deque): a missing key reads as deque()
Events(ue, uid) == IF uid \in DOMAIN ue THEN ue[uid] ELSE <<>>

\* mutant of PopStale: an `if` in place of the `while`
PopStaleOnce(dq, t) ==
    IF dq # <<>> /\ t - Head(dq) > RL_WINDOW THEN Tail(dq) ELSE dq

\* while dq and now - dq[0] > RL_WINDOW: dq.popleft()
RECURSIVE PopStale(_, _)
PopStale(dq, t) ==
    IF dq # <<>> /\ t - Head(dq) > RL_WINDOW THEN PopStale(Tail(dq), t) ELSE dq

\* mutant of IsLimited: `>` in place of `>=`
IsLimitedOffByOne(dq) == Len(dq) > RL_LIMIT

\* if len(dq) >= RL_LIMIT: return True
IsLimited(dq) == Len(dq) >= RL_LIMIT

\* mutant of DequeAfter: the event is recorded before the limit is looked at
DequeAfterRecordAll(dq, t) == Append(PopStale(dq, t), t)

\* the deque rate_limited(uid) leaves behind at time t
DequeAfter(dq, t) ==
    LET trimmed == PopStale(dq, t)
    IN  IF IsLimited(trimmed) THEN trimmed ELSE Append(trimmed, t)

\* the value rate_limited(uid) returns at time t
rate_limited(ue, uid, t) == IsLimited(PopStale(Events(ue, uid), t))

\* mutant of EventsAfter: the deque written back was read before the latest
\* append of another task
EventsAfterLostUpdate(ue, uid, t) ==
    LET dq == Events(ue, uid)
        stale == IF dq = <<>> THEN dq ELSE SubSeq(dq, 1, Len(dq) - 1)
    IN  [u \in DOMAIN ue \cup {uid} |-> IF u = uid THEN DequeAfter(stale, t) ELSE ue[u]]

\* user_events after rate_limited(uid) at time t: the access creates the key
EventsAfter(ue, uid, t) ==
    [u \in DOMAIN ue \cup {uid} |->
        IF u = uid THEN DequeAfter(Events(ue, uid), t) ELSE ue[u]]

\* history of the timestamps appended for uid
AcceptedAfter(acc, ue, uid, t) ==
    IF rate_limited(ue, uid, t) THEN acc
    ELSE [acc EXCEPT ![uid] = Append(@, t)]

\* ----------------------------------------------------------------- strings

\* str.lower() on one character
LowerChar(c) == IF c = "A" THEN "a" ELSE IF c = "B" THEN "b" ELSE c

\* str.lower()
Lower(s) == [i \in 1..Len(s) |-> LowerChar(s[i])]

RECURSIVE StripLeft(_)
StripLeft(s) == IF s # <<>> /\ Head(s) = " " THEN StripLeft(Tail(s)) ELSE s

RECURSIVE StripRight(_)
StripRight(s) ==
    IF s # <<>> /\ s[Len(s)] = " " THEN StripRight(SubSeq(s, 1, Len(s) - 1)) ELSE s

\* str.strip()
Strip(s) == StripRight(StripLeft(s))

\* mutant of TmdbKey: the title is used as typed
TmdbKeyAsTyped(title) == <<"tmdb:">> \o title

\* f"tmdb:{title.lower()}"
TmdbKey(title) == <<"tmdb:">> \o Lower(title)

\* f"omdb:{title.lower()}"
OmdbKey(title) == <<"omdb:">> \o Lower(title)

\* -------------------------------------------------------------------- cache

\* cache.get(key): <<>> for None, <<item>> for a CacheItem
CacheGet(c, key) == IF key \in DOMAIN c THEN <<c[key]>> ELSE <<>>

\* mutant of CacheLive: `>=` in place of `>`
CacheLiveInclusive(ci, t) == ci # <<>> /\ ci[1].expiry >= t

\* ci and ci.expiry > now
CacheLive(ci, t) == ci # <<>> /\ ci[1].expiry > t

\* CacheItem(value=data, expiry=now + timedelta(seconds=CACHE_TTL_SECONDS))
CacheItem(data, t) == [value |-> data, expiry |-> t + CACHE_TTL_SECONDS]

\* mutant of CachePut: an entry that is there already is left alone
CachePutIfAbsent(c, key, item) ==
    [k \in DOMAIN c \cup {key} |-> IF k \in DOMAIN c THEN c[k] ELSE item]

\* cache[key] = item
CachePut(c, key, item) ==
    [k \in DOMAIN c \cup {key} |-> IF k = key THEN item ELSE c[k]]

\* mutant of CacheAfterGet: the answer is stored before the status is looked at
CacheAfterGetNegative(c, key, ok, data, t) == CachePut(c, key, CacheItem(data, t))

\* the cache after `r = await client.get(...); r.raise_for_status();
\* data = r.json(); cache[key] = CacheItem(...)`: a GET that raises, or whose
\* status raises, leaves the function before the assignment
CacheAfterGet(c, key, ok, data, t) ==
    IF ok THEN CachePut(c, key, CacheItem(data, t)) ELSE c

\* ----------------------------------------------------------------- requests

\* one tmdb_search / omdb_lookup call: how far it got, its local `now` and the
\* GETs it sent.  src is "none" (not called), "nokey" (returned None: no API
\* key), "cache" (returned the cached value), "pending" (awaiting client.get),
\* "fetched" (stored and returned the answer) or "raised" (the GET raised)
NoLookup == [src |-> "none", now |-> 0, calls |-> 0]

\* a task that has no request yet
Blank ==
    [pc |-> "idle", token |-> "", secret |-> "", sender |-> <<>>, text |-> <<>>,
     q |-> <<>>, rl |-> "none", audit |-> "none",
     tmdb |-> NoLookup, omdb |-> NoLookup, out |-> <<>>, replies |-> <<>>]

\* mutant of Authentic: the secret is not looked at
AuthenticTokenOnly(tok, sec) == tok = BOT_TOKEN

\* the two checks of webhook(): path token, then query-string secret
Authentic(tok, sec) == tok = BOT_TOKEN /\ sec = WEBHOOK_SECRET

\* POST /webhook/{token}?secret={secret}: refused with 403 before the body is
\* read, or suspended on `await request.json()` with the text update it carries
NewRequest(tok, sec, snd, txt) ==
    IF Authentic(tok, sec)
    THEN [Blank EXCEPT !.pc = "body", !.token = tok, !.secret = sec, !.sender = snd,
                       !.text = txt]
    ELSE [Blank EXCEPT !.pc = "rejected", !.token = tok, !.secret = sec]

\* positions a request stays in for good: 403, the handler returned, the
\* handler raised
Terminal == {"rejected", "done", "raised"}

\* the tasks that run side by side; one is free again once its request ended
Slots == {1, 2}

\* the task the next request runs in: an unused one, else one that has ended
FreeSlots ==
    IF \E r \in Slots : req[r].pc = "idle"
    THEN {r \in Slots : req[r].pc = "idle"}
    ELSE {r \in Slots : req[r].pc \in Terminal}

\* update.effective_user.id if update.effective_user else 0
UidOf(snd) == IF snd = <<>> THEN 0 ELSE snd[1]

\* context.bot.send_message(chat, text) / send_photo(chat, url, caption=...)
TextReply(msg) == [kind |-> "text", msg |-> msg, url |-> ""]

PhotoReply(msg, url) == [kind |-> "photo", msg |-> msg, url |-> url]

\* mutant of Send: a photo is followed by its caption as a message of its own
SendPhotoAndText(rec, reply) ==
    [rec EXCEPT !.pc = "send",
                !.out = IF reply.kind = "photo" THEN <<reply, TextReply(reply.msg)>>
                        ELSE <<reply>>]

\* return await context.bot.send_...(...): the task suspends on the send
Send(rec, reply) == [rec EXCEPT !.pc = "send", !.out = <<reply>>]

\* ------------------------------------------------------------- lookup chain

\* mutant of AfterOmdb: om.get("Response") is not looked at
AfterOmdbIgnoresResponse(rec, om) ==
    IF om # <<>>
    THEN LET poster == om[1].Poster
         IN  IF poster # "" /\ poster # "N/A"
             THEN Send(rec, PhotoReply("omdb", poster))
             ELSE Send(rec, TextReply("omdb"))
    ELSE Send(rec, TextReply("notfound"))

\* text_handler from line 121 on, om being what omdb_lookup returned
AfterOmdb(rec, om) ==
    IF om # <<>> /\ om[1].Response = "True"
    THEN LET poster == om[1].Poster
         IN  IF poster # "" /\ poster # "N/A"
             THEN Send(rec, PhotoReply("omdb", poster))
             ELSE Send(rec, TextReply("omdb"))
    ELSE Send(rec, TextReply("notfound"))

\* om = await omdb_lookup(q), up to its first suspension
omdb_lookup(rec, c, t) ==
    IF OMDB_API_KEY = ""
    THEN AfterOmdb([rec EXCEPT !.omdb.src = "nokey"], <<>>)
    ELSE LET key == OmdbKey(rec.q)
             ci == CacheGet(c, key)
             called == [rec EXCEPT !.omdb.now = t]
         IN  IF CacheLive(ci, t)
             THEN AfterOmdb([called EXCEPT !.omdb.src = "cache"], <<ci[1].value>>)
             ELSE [called EXCEPT !.pc = "omdb", !.omdb.src = "pending",
                                 !.omdb.calls = @ + 1]

\* info and info.get("results")
HasResults(info) == info # <<>> /\ info[1].results # <<>>

\* mutant of AfterTmdb: OMDB is asked whatever TMDB answered
AfterTmdbNoPrecedence(rec, info, c, t) == omdb_lookup(rec, c, t)

\* text_handler from line 108 on, info being what tmdb_search returned
AfterTmdb(rec, info, c, t) ==
    IF HasResults(info)
    THEN LET poster == info[1].results[1].poster_path
         IN  IF poster # ""
             THEN Send(rec, PhotoReply("tmdb", "https://image.tmdb.org/t/p/w500" \o poster))
             ELSE Send(rec, TextReply("tmdb"))
    ELSE omdb_lookup(rec, c, t)

\* mutant of tmdb_search: the cache is not consulted
TmdbSearchNoCache(rec, c, t) ==
    IF TMDB_API_KEY = ""
    THEN AfterTmdb([rec EXCEPT !.tmdb.src = "nokey"], <<>>, c, t)
    ELSE [rec EXCEPT !.pc = "tmdb", !.tmdb.now = t, !.tmdb.src = "pending",
                     !.tmdb.calls = @ + 1]

\* info = await tmdb_search(q), up to its first suspension
tmdb_search(rec, c, t) ==
    IF TMDB_API_KEY = ""
    THEN AfterTmdb([rec EXCEPT !.tmdb.src = "nokey"], <<>>, c, t)
    ELSE LET key == TmdbKey(rec.q)
             ci == CacheGet(c, key)
             called == [rec EXCEPT !.tmdb.now = t]
         IN  IF CacheLive(ci, t)
             THEN AfterTmdb([called EXCEPT !.tmdb.src = "cache"], <<ci[1].value>>, c, t)
             ELSE [called EXCEPT !.pc = "tmdb", !.tmdb.src = "pending",
                                 !.tmdb.calls = @ + 1]

\* ------------------------------------------------------------------ actions

Init ==
    /\ now = 0
    /\ ticks = 0
    /\ TMDB_API_KEY \in {"", "tmdb-key"}
    /\ OMDB_API_KEY \in {"", "omdb-key"}
    /\ db \in BOOLEAN
    /\ cache = <<>>
    /\ user_events = <<>>
    /\ req = [r \in Slots |-> Blank]
    /\ nreq = 0
    /\ accepted = [u \in Uids |-> <<>>]
    /\ ret = <<>>
    /\ ncalls = 0

\* a request reaches the endpoint: webhook() up to `await request.json()`
Webhook(r, tok, sec, snd, txt) ==
    /\ nreq < MaxRequests
    /\ r \in FreeSlots
    /\ \A s \in FreeSlots : r <= s
    /\ nreq' = nreq + 1
    /\ req' = [req EXCEPT ![r] = NewRequest(tok, sec, snd, txt)]
    /\ UNCHANGED <<now, ticks, config, cache, user_events, accepted, ret, ncalls>>

\* mutant of TextHandler: the audit insert is started and not awaited
TextHandlerAuditDetached(r) ==
    /\ req[r].pc = "body"
    /\ LET uid == UidOf(req[r].sender)
           limited == rate_limited(user_events, uid, now)
           rec == [req[r] EXCEPT !.rl = IF limited THEN "limited" ELSE "accepted"]
           checked == [rec EXCEPT !.q = Strip(rec.text)]
       IN  /\ user_events' = EventsAfter(user_events, uid, now)
           /\ accepted' = AcceptedAfter(accepted, user_events, uid, now)
           /\ req' = [req EXCEPT ![r] =
                        IF limited THEN Send(rec, TextReply("slow"))
                        ELSE IF db
                        THEN tmdb_search([checked EXCEPT !.audit = "pending"], cache, now)
                        ELSE tmdb_search(checked, cache, now)]
    /\ UNCHANGED <<now, ticks, config, cache, nreq, ret, ncalls>>

\* mutant of TextHandler: the verdict of the rate limiter is not acted on
TextHandlerIgnoresVerdict(r) ==
    /\ req[r].pc = "body"
    /\ LET uid == UidOf(req[r].sender)
           limited == rate_limited(user_events, uid, now)
           rec == [req[r] EXCEPT !.rl = IF limited THEN "limited" ELSE "accepted"]
           checked == [rec EXCEPT !.q = Strip(rec.text)]
       IN  /\ user_events' = EventsAfter(user_events, uid, now)
           /\ accepted' = AcceptedAfter(accepted, user_events, uid, now)
           /\ req' = [req EXCEPT ![r] =
                        IF db THEN [checked EXCEPT !.pc = "audit", !.audit = "pending"]
                        ELSE tmdb_search(checked, cache, now)]
    /\ UNCHANGED <<now, ticks, config, cache, nreq, ret, ncalls>>

\* process_update -> text_handler, up to its first suspension
TextHandler(r) ==
    /\ req[r].pc = "body"
    /\ LET uid == UidOf(req[r].sender)
           limited == rate_limited(user_events, uid, now)
           rec == [req[r] EXCEPT !.rl = IF limited THEN "limited" ELSE "accepted"]
           checked == [rec EXCEPT !.q = Strip(rec.text)]
       IN  /\ user_events' = EventsAfter(user_events, uid, now)
           /\ accepted' = AcceptedAfter(accepted, user_events, uid, now)
           /\ req' = [req EXCEPT ![r] =
                        IF limited THEN Send(rec, TextReply("slow"))
                        ELSE IF db THEN [checked EXCEPT !.pc = "audit", !.audit = "pending"]
                        ELSE tmdb_search(checked, cache, now)]
    /\ UNCHANGED <<now, ticks, config, cache, nreq, ret, ncalls>>

\* mutant of AuditDone: the exception of a failed insert is not caught
AuditDoneAborting(r, ok) ==
    /\ req[r].pc = "audit"
    /\ req' = IF ok
              THEN [req EXCEPT ![r] =
                      tmdb_search([req[r] EXCEPT !.audit = "written"], cache, now)]
              ELSE [req EXCEPT ![r].pc = "raised", ![r].audit = "failed"]
    /\ UNCHANGED <<now, ticks, config, cache, user_events, nreq, accepted, ret, ncalls>>

\* db.searches.insert_one(...) returns (ok) or raises (the handler logs a warning)
AuditDone(r, ok) ==
    /\ req[r].pc = "audit"
    /\ req' = [req EXCEPT ![r] =
                 tmdb_search([req[r] EXCEPT !.audit = IF ok THEN "written" ELSE "failed"],
                             cache, now)]
    /\ UNCHANGED <<now, ticks, config, cache, user_events, nreq, accepted, ret, ncalls>>

\* mutant of TmdbDone: a GET that failed is sent once more
TmdbDoneRetrying(r, ok, data) ==
    /\ req[r].pc = "tmdb"
    /\ cache' = CacheAfterGet(cache, TmdbKey(req[r].q), ok, data, req[r].tmdb.now)
    /\ req' = IF ok
              THEN [req EXCEPT ![r] =
                      AfterTmdb([req[r] EXCEPT !.tmdb.src = "fetched"], <<data>>,
                                cache', now)]
              ELSE IF req[r].tmdb.calls < 2
              THEN [req EXCEPT ![r].tmdb.calls = @ + 1]
              ELSE [req EXCEPT ![r].pc = "raised", ![r].tmdb.src = "raised"]
    /\ UNCHANGED <<now, ticks, config, user_events, nreq, accepted, ret, ncalls>>

\* client.get + raise_for_status of tmdb_search: an answer, or an exception
\* that nothing in tmdb_search or text_handler catches
TmdbDone(r, ok, data) ==
    /\ req[r].pc = "tmdb"
    /\ cache' = CacheAfterGet(cache, TmdbKey(req[r].q), ok, data, req[r].tmdb.now)
    /\ req' = IF ok
              THEN [req EXCEPT ![r] =
                      AfterTmdb([req[r] EXCEPT !.tmdb.src = "fetched"], <<data>>,
                                cache', now)]
              ELSE [req EXCEPT ![r].pc = "raised", ![r].tmdb.src = "raised"]
    /\ UNCHANGED <<now, ticks, config, user_events, nreq, accepted, ret, ncalls>>

\* client.get + raise_for_status of omdb_lookup
OmdbDone(r, ok, data) ==
    /\ req[r].pc = "omdb"
    /\ cache' = CacheAfterGet(cache, OmdbKey(req[r].q), ok, data, req[r].omdb.now)
    /\ req' = IF ok
              THEN [req EXCEPT ![r] =
                      AfterOmdb([req[r] EXCEPT !.omdb.src = "fetched"], <<data>>)]
              ELSE [req EXCEPT ![r].pc = "raised", ![r].omdb.src = "raised"]
    /\ UNCHANGED <<now, ticks, config, user_events, nreq, accepted, ret, ncalls>>

\* the send returns: the reply is with the sender, the handler returns
SendDone(r) ==
    /\ req[r].pc = "send"
    /\ req' = [req EXCEPT ![r].pc = "done", ![r].replies = @ \o req[r].out,
                          ![r].out = <<>>]
    /\ UNCHANGED <<now, ticks, config, cache, user_events, nreq, accepted, ret, ncalls>>

\* the clock moves on by d seconds
Tick(d) ==
    /\ ticks < MaxTicks
    /\ ticks' = ticks + 1
    /\ now' = now + d
    /\ UNCHANGED <<config, cache, user_events, req, nreq, accepted, ret, ncalls>>

Next ==
    \/ \E r \in Slots, tok \in Tokens, sec \in Secrets, snd \in Senders, txt \in Texts :
          Webhook(r, tok, sec, snd, txt)
    \/ \E r \in Slots : TextHandler(r)
    \/ \E r \in Slots, ok \in BOOLEAN : AuditDone(r, ok)
    \/ \E r \in Slots, ok \in BOOLEAN, data \in TmdbData : TmdbDone(r, ok, data)
    \/ \E r \in Slots, ok \in BOOLEAN, data \in OmdbData : OmdbDone(r, ok, data)
    \/ \E r \in Slots : SendDone(r)
    \/ \E d \in Steps : Tick(d)

Spec == Init /\ [][Next]_vars

\* ------------------------------------------- the rate limiter on its own

InitRL ==
    /\ now = 0
    /\ ticks = 0
    /\ TMDB_API_KEY = ""
    /\ OMDB_API_KEY = ""
    /\ db = FALSE
    /\ cache = <<>>
    /\ user_events = <<>>
    /\ req = [r \in Slots |-> Blank]
    /\ nreq = 0
    /\ accepted = [u \in Uids |-> <<>>]
    /\ ret = <<>>
    /\ ncalls = 0

\* one call rate_limited(uid)
RateCall(uid) ==
    /\ ncalls < MaxCalls
    /\ ncalls' = ncalls + 1
    /\ ret' = <<uid, rate_limited(user_events, uid, now)>>
    /\ user_events' = EventsAfter(user_events, uid, now)
    /\ accepted' = AcceptedAfter(accepted, user_events, uid, now)
    /\ UNCHANGED <<now, ticks, config, cache, req, nreq>>

\* the clock moves on by d seconds between two calls
RLTick(d) ==
    /\ ticks < MaxRLTicks
    /\ ticks' = ticks + 1
    /\ now' = now + d
    /\ ret' = <<>>
    /\ UNCHANGED <<config, cache, user_events, req, nreq, accepted, ncalls>>

NextRL ==
    \/ \E uid \in Uids : RateCall(uid)
    \/ \E d \in RLSteps : RLTick(d)

SpecRL == InitRL /\ [][NextRL]_vars

\* ------------------------------------------- a sender at the limit

\* the state RL_LIMIT - 1 requests of sender 1 leave behind, all of them
\* handled within second 0 and ended, none having stored an answer (no API key
\* set, or their GETs failed): one more request fills the sender's window
InitBusy ==
    /\ now = 0
    /\ ticks = 0
    /\ TMDB_API_KEY \in {"", "tmdb-key"}
    /\ OMDB_API_KEY \in {"", "omdb-key"}
    /\ db \in BOOLEAN
    /\ cache = <<>>
    /\ user_events = [u \in {1} |-> [i \in 1..(RL_LIMIT - 1) |-> 0]]
    /\ req = [r \in Slots |-> Blank]
    /\ nreq = 0
    /\ accepted = [u \in Uids |-> IF u = 1 THEN [i \in 1..(RL_LIMIT - 1) |-> 0] ELSE <<>>]
    /\ ret = <<>>
    /\ ncalls = 0

SpecBusy == InitBusy /\ [][Next]_vars

\* ------------------------------------------- one title in two spellings

\* both API keys set, no database
InitCase ==
    /\ now = 0
    /\ ticks = 0
    /\ TMDB_API_KEY = "tmdb-key"
    /\ OMDB_API_KEY = "omdb-key"
    /\ db = FALSE
    /\ cache = <<>>
    /\ user_events = <<>>
    /\ req = [r \in Slots |-> Blank]
    /\ nreq = 0
    /\ accepted = [u \in Uids |-> <<>>]
    /\ ret = <<>>
    /\ ncalls = 0

\* authentic requests for either spelling
NextCase ==
    \/ \E r \in Slots, snd \in Senders, txt \in CaseTexts :
          Webhook(r, BOT_TOKEN, WEBHOOK_SECRET, snd, txt)
    \/ \E r \in Slots : TextHandler(r)
    \/ \E r \in Slots, ok \in BOOLEAN, data \in TmdbData : TmdbDone(r, ok, data)
    \/ \E r \in Slots, ok \in BOOLEAN, data \in OmdbData : OmdbDone(r, ok, data)
    \/ \E r \in Slots : SendDone(r)
    \/ \E d \in Steps : Tick(d)

SpecCase == InitCase /\ [][NextCase]_vars

\* ------------------------------------------------------------------- claims

\* a request that has touched nothing: no rate check, no audit insert, no
\* lookup, no reply pending or sent
Untouched(rec) ==
    /\ rec.rl = "none"
    /\ rec.audit = "none"
    /\ rec.tmdb = NoLookup
    /\ rec.omdb = NoLookup
    /\ rec.out = <<>>
    /\ rec.replies = <<>>

\* C1: a request whose path token is not the bot token, or whose secret is not
\* the shared secret, ends rejected (403) in the step that receives it; that
\* step changes no rate-limiter window and no cache entry, the request has made
\* no rate check, audit insert, lookup or reply, and it never moves again (its
\* task only ever takes up a new request).
AuthFailureRejects ==
    [][ \A r \in Slots :
          /\ (/\ nreq' = nreq + 1
              /\ req'[r] # req[r]
              /\ req'[r].token # BOT_TOKEN \/ req'[r].secret # WEBHOOK_SECRET)
             => /\ req'[r].pc = "rejected"
                /\ Untouched(req'[r])
                /\ UNCHANGED <<user_events, accepted, cache>>
          /\ (req[r].pc = "rejected" /\ nreq' = nreq) => req'[r] = req[r]
      ]_vars

\* C1 witness: one request refused for its token, one for its secret alone
BothRejectionsSeen ==
    \E r1, r2 \in Slots :
        /\ req[r1].pc = "rejected" /\ req[r1].token # BOT_TOKEN
        /\ req[r2].pc = "rejected" /\ req[r2].token = BOT_TOKEN
        /\ req[r2].secret # WEBHOOK_SECRET

\* the timestamps of dq that are not older than t - RL_WINDOW
NotOlder(dq, t) ==
    LET Fresh(ts) == ts >= t - RL_WINDOW
    IN  SelectSeq(dq, Fresh)

\* C2: a rate_limited call for uid keeps of uid's sequence exactly the
\* timestamps not older than now - window, which is what is left after the old
\* ones are taken off the front; with limit or more of them left it rejects and
\* leaves that sequence, otherwise it appends now and accepts; no other uid's
\* sequence changes.
RateCallTrimsChecksAppends ==
    [][ ncalls' = ncalls + 1 =>
          LET uid == ret'[1]
              before == Events(user_events, uid)
              kept == NotOlder(before, now)
          IN  /\ kept = SubSeq(before, Len(before) - Len(kept) + 1, Len(before))
              /\ ret'[2] = (Len(kept) >= RL_LIMIT)
              /\ user_events'[uid] = IF Len(kept) >= RL_LIMIT THEN kept
                                     ELSE Append(kept, now)
              /\ DOMAIN user_events' = DOMAIN user_events \cup {uid}
              /\ \A u \in DOMAIN user_events \ {uid} : user_events'[u] = user_events[u]
      ]_vars

\* C2 witness: a call was rejected on the edge of the window, by fifteen
\* timestamps exactly window seconds old, none of which was removed
RejectedOnWindowEdge ==
    /\ ret = <<1, TRUE>>
    /\ now = RL_WINDOW
    /\ user_events[1] = [i \in 1..RL_LIMIT |-> 0]

\* C3: right after a rate_limited call every timestamp in the caller's sequence
\* is at most window seconds old, and no sequence is ever longer than the limit.
WindowFreshAndBounded ==
    /\ ret # <<>> =>
          \A i \in 1..Len(user_events[ret[1]]) :
              now - user_events[ret[1]][i] <= RL_WINDOW
    /\ \A u \in DOMAIN user_events : Len(user_events[u]) <= RL_LIMIT

\* C3 witness: a call at a time past the first window left a full sequence from
\* which older timestamps were dropped
FullWindowAfterTrim ==
    /\ ret = <<1, FALSE>>
    /\ now > RL_WINDOW
    /\ Len(user_events[1]) = RL_LIMIT
    /\ Len(accepted[1]) > RL_LIMIT

\* how many of the timestamps of acc lie in the 30 seconds up to t
InTrailingWindow(acc, t) ==
    Cardinality({i \in 1..Len(acc) : acc[i] >= t - RL_WINDOW /\ acc[i] <= t})

\* C4: with limit 15 and window 30, the 16th accepted event after any accepted
\* event of the same uid comes more than 30 seconds after it (no span of 30
\* seconds holds more than 15 accepted events), and a call is rejected only
\* when at least 15 accepted events of that uid lie in the trailing 30 seconds.
FifteenPerThirtySeconds ==
    /\ RL_LIMIT = 15
    /\ RL_WINDOW = 30
    /\ \A u \in Uids :
          \A i \in 1..(Len(accepted[u]) - RL_LIMIT) :
              accepted[u][i + RL_LIMIT] - accepted[u][i] > RL_WINDOW
    /\ (ret # <<>> /\ ret[2]) => InTrailingWindow(accepted[ret[1]], now) >= RL_LIMIT
    /\ (ret # <<>> /\ ~ret[2]) => InTrailingWindow(accepted[ret[1]], now) <= RL_LIMIT

\* C4 witness: fifteen events at t=0 were accepted and the sixteenth, at t=1,
\* has just been rejected
SixteenthRejected ==
    /\ ret = <<1, TRUE>>
    /\ now = 1
    /\ accepted[1] = [i \in 1..RL_LIMIT |-> 0]

\* C5: a lookup that finds a key configured returns the cached value, sending
\* no GET, exactly when the cache holds an entry for its key whose expiry is
\* later than now; otherwise (no entry, or expiry <= now) it sends the GET.
\* The value it returns from the cache is the stored one: the reply is built
\* from it.
CacheHitIffLive ==
    [][ \A r \in Slots :
          /\ (req[r].tmdb.src = "none" /\ req'[r].tmdb.src \in {"cache", "pending"}) =>
                LET key == TmdbKey(req'[r].q)
                    live == key \in DOMAIN cache /\ cache[key].expiry > now
                IN  /\ (req'[r].tmdb.src = "cache") <=> live
                    /\ req'[r].tmdb.calls = (IF live THEN 0 ELSE 1)
                    /\ ~live => req'[r].pc = "tmdb"
                    /\ (live /\ cache[key].value.results # <<>>) =>
                          /\ req'[r].pc = "send"
                          /\ req'[r].out[1].msg = "tmdb"
                    /\ (live /\ cache[key].value.results = <<>>) =>
                          req'[r].omdb.src # "none"
          /\ (req[r].omdb.src = "none" /\ req'[r].omdb.src \in {"cache", "pending"}) =>
                LET key == OmdbKey(req'[r].q)
                    live == key \in DOMAIN cache /\ cache[key].expiry > now
                IN  /\ (req'[r].omdb.src = "cache") <=> live
                    /\ req'[r].omdb.calls = (IF live THEN 0 ELSE 1)
                    /\ ~live => req'[r].pc = "omdb"
                    /\ live =>
                          /\ req'[r].pc = "send"
                          /\ (req'[r].out[1].msg = "omdb") <=>
                                (cache[key].value.Response = "True")
      ]_vars

\* C5 witness: a lookup made at the very second an entry expires has sent the
\* GET, and another request got its answer from the cache
ExpiredEntryRefetched ==
    \E r \in Slots :
        /\ req[r].pc = "tmdb"
        /\ TmdbKey(req[r].q) \in DOMAIN cache
        /\ cache[TmdbKey(req[r].q)].expiry = req[r].tmdb.now

\* a tmdb_search / omdb_lookup call that got as far as looking into the cache
Looked(lk) == lk.src \in {"cache", "pending", "fetched", "raised"}

\* C6 as stated: two lookups of one service for one key that begin less than
\* TTL apart send at most one GET between them.
OneFetchPerTtl ==
    \A r, s \in Slots :
        /\ (/\ r # s
            /\ Looked(req[r].tmdb) /\ Looked(req[s].tmdb)
            /\ TmdbKey(req[r].q) = TmdbKey(req[s].q)
            /\ req[r].tmdb.now - req[s].tmdb.now < CACHE_TTL_SECONDS
            /\ req[s].tmdb.now - req[r].tmdb.now < CACHE_TTL_SECONDS)
           => req[r].tmdb.calls + req[s].tmdb.calls <= 1
        /\ (/\ r # s
            /\ Looked(req[r].omdb) /\ Looked(req[s].omdb)
            /\ OmdbKey(req[r].q) = OmdbKey(req[s].q)
            /\ req[r].omdb.now - req[s].omdb.now < CACHE_TTL_SECONDS
            /\ req[s].omdb.now - req[r].omdb.now < CACHE_TTL_SECONDS)
           => req[r].omdb.calls + req[s].omdb.calls <= 1

\* C6 as amended: when a lookup begins after another lookup for its key has
\* fetched and stored its answer, and that entry is the one in the cache, it
\* sends no GET if it begins less than TTL after the storing lookup began (one
\* GET between the two), and sends the GET again if it begins TTL or more
\* after.
OneFetchPerTtlOnceStored ==
    [][ \A r, s \in Slots :
          /\ (/\ r # s
              /\ req[r].tmdb.src = "none" /\ Looked(req'[r].tmdb)
              /\ req[s].tmdb.src = "fetched"
              /\ TmdbKey(req'[r].q) = TmdbKey(req[s].q)
              /\ TmdbKey(req[s].q) \in DOMAIN cache
              /\ cache[TmdbKey(req[s].q)].expiry = req[s].tmdb.now + CACHE_TTL_SECONDS)
             => IF now - req[s].tmdb.now < CACHE_TTL_SECONDS
                THEN req'[r].tmdb.calls + req[s].tmdb.calls = 1
                ELSE req'[r].tmdb.calls = 1
          /\ (/\ r # s
              /\ req[r].omdb.src = "none" /\ Looked(req'[r].omdb)
              /\ req[s].omdb.src = "fetched"
              /\ OmdbKey(req'[r].q) = OmdbKey(req[s].q)
              /\ OmdbKey(req[s].q) \in DOMAIN cache
              /\ cache[OmdbKey(req[s].q)].expiry = req[s].omdb.now + CACHE_TTL_SECONDS)
             => IF now - req[s].omdb.now < CACHE_TTL_SECONDS
                THEN req'[r].omdb.calls + req[s].omdb.calls = 1
                ELSE req'[r].omdb.calls = 1
      ]_vars

\* C6 witness: a lookup that began later than one that fetched, and within its
\* TTL, was answered from the cache
SecondCallServedFromCache ==
    \E r, s \in Slots :
        /\ req[s].tmdb.src = "fetched" /\ req[s].tmdb.calls = 1
        /\ req[r].tmdb.src = "cache" /\ req[r].tmdb.calls = 0
        /\ req[r].tmdb.now > req[s].tmdb.now
        /\ req[r].tmdb.now - req[s].tmdb.now < CACHE_TTL_SECONDS

\* C7: the step in which a GET fails leaves the cache as it was and ends the
\* lookup by raising into its caller (no value is returned: no reply is set up,
\* no further lookup begins); and a lookup that begins while the cache holds no
\* entry for its key, another request's GET for that key having failed, sends
\* the GET again.
FailedFetchNotCached ==
    [][ \A r \in Slots :
          /\ (req[r].pc = "tmdb" /\ req'[r].tmdb.src = "raised")
             => /\ cache' = cache
                /\ req'[r].pc = "raised"
                /\ req'[r].out = <<>> /\ req'[r].omdb.src = "none"
          /\ (req[r].pc = "omdb" /\ req'[r].omdb.src = "raised")
             => /\ cache' = cache
                /\ req'[r].pc = "raised"
                /\ req'[r].out = <<>>
          /\ \A s \in Slots \ {r} :
                /\ (/\ req[s].tmdb.src = "raised"
                    /\ req[r].tmdb.src = "none" /\ Looked(req'[r].tmdb)
                    /\ TmdbKey(req'[r].q) \notin DOMAIN cache)
                   => req'[r].tmdb.src = "pending" /\ req'[r].tmdb.calls = 1
                /\ (/\ req[s].omdb.src = "raised"
                    /\ req[r].omdb.src = "none" /\ Looked(req'[r].omdb)
                    /\ OmdbKey(req'[r].q) \notin DOMAIN cache)
                   => req'[r].omdb.src = "pending" /\ req'[r].omdb.calls = 1
      ]_vars

\* C7 witness: a GET has failed, the cache holds nothing for its key, and a
\* lookup that began later has sent the GET again
FailedThenRetried ==
    \E r, s \in Slots :
        /\ req[s].tmdb.src = "raised"
        /\ req[r].pc = "tmdb"
        /\ req[r].tmdb.now > req[s].tmdb.now
        /\ TmdbKey(req[r].q) \notin DOMAIN cache

\* C8 as stated: a request whose TMDB GET failed goes on as if TMDB had no
\* match: with OMDB configured omdb_lookup is called, without it the not-found
\* message is sent; the request does not end on the failure.
PrimaryFailureFallsThrough ==
    \A r \in Slots :
        req[r].tmdb.src = "raised" =>
            /\ req[r].pc # "raised"
            /\ OMDB_API_KEY # "" => req[r].omdb.src # "none"
            /\ OMDB_API_KEY = "" =>
                  \/ req[r].out = <<TextReply("notfound")>>
                  \/ req[r].replies = <<TextReply("notfound")>>

\* the messages a sender may be shown: a result, not found, slow down,
\* temporarily unavailable
UserMessages == {"tmdb", "omdb", "notfound", "slow", "unavailable"}

\* C9 as stated: a request that passed the two checks of webhook() and has
\* ended has sent exactly one reply, one of the four kinds; none ends by an
\* exception leaving text_handler.
EveryRequestRepliedOnce ==
    \A r \in Slots :
        /\ req[r].pc # "raised"
        /\ req[r].pc = "done" =>
              /\ Len(req[r].replies) = 1
              /\ req[r].replies[1].msg \in UserMessages

\* every lookup service that has a key was asked and its GET failed
AllConfiguredFailed(rec) ==
    /\ TMDB_API_KEY # "" \/ OMDB_API_KEY # ""
    /\ TMDB_API_KEY # "" => rec.tmdb.src = "raised"
    /\ OMDB_API_KEY # "" => rec.omdb.src = "raised"

\* C10 as stated: a request for which every configured service failed has
\* been answered "temporarily unavailable"; "not found" is sent only when no
\* lookup of the request failed.
UnavailableWhenAllFail ==
    \A r \in Slots :
        /\ (req[r].pc \in Terminal /\ AllConfiguredFailed(req[r]))
           => req[r].replies = <<TextReply("unavailable")>>
        /\ (req[r].replies = <<TextReply("notfound")>>)
           => req[r].tmdb.src # "raised" /\ req[r].omdb.src # "raised"


\* the entries of cache c under keys of the omdb namespace
OmdbEntries(c) == {<<k, c[k]>> : k \in {x \in DOMAIN c : Head(x) = "omdb:"}}

\* C11: in the step in which tmdb_search hands back an answer with a non-empty
\* result list (fetched just now, or read from a live cache entry) the reply is
\* set up from the first result, marked TMDB, omdb_lookup is not called and no
\* OMDB cache entry changes, whether or not an OMDB key is set; and a request
\* that has a TMDB reply never has called omdb_lookup.
PrimaryMatchWins ==
    [][ \A r \in Slots :
          /\ (/\ req[r].tmdb.src \in {"none", "pending"}
              /\ req'[r].tmdb.src \in {"cache", "fetched"}
              /\ cache'[TmdbKey(req'[r].q)].value.results # <<>>)
             => LET first == cache'[TmdbKey(req'[r].q)].value.results[1]
                IN  /\ req'[r].pc = "send"
                    /\ req'[r].out[1].msg = "tmdb"
                    /\ req'[r].out[1].url =
                          (IF first.poster_path = "" THEN ""
                           ELSE "https://image.tmdb.org/t/p/w500" \o first.poster_path)
                    /\ req'[r].omdb = NoLookup
                    /\ OmdbEntries(cache') = OmdbEntries(cache)
          /\ (\E i \in 1..Len(req'[r].out \o req'[r].replies) :
                 (req'[r].out \o req'[r].replies)[i].msg = "tmdb")
             => req'[r].omdb = NoLookup
      ]_vars

\* C11 witness: with an OMDB key set and an OMDB entry in the cache for the
\* very query, a request was answered from TMDB and never called omdb_lookup
PrimaryAnsweredDespiteSecondary ==
    \E r \in Slots :
        /\ OMDB_API_KEY # ""
        /\ req[r].pc = "done"
        /\ req[r].replies[1].msg = "tmdb"
        /\ req[r].omdb = NoLookup
        /\ OmdbKey(req[r].q) \in DOMAIN cache

\* C12: in the step in which tmdb_search hands back nothing usable (no TMDB
\* key, or an answer with an empty result list) omdb_lookup is called; when
\* omdb_lookup finds no OMDB key the not-found message is set up; when it hands
\* back an answer (fetched just now or cached), the reply is the OMDB one,
\* carrying the answer's poster, if the answer's Response is "True", and the
\* not-found message otherwise.
SecondaryDecidesWhenPrimaryEmpty ==
    [][ \A r \in Slots :
          /\ (/\ req[r].tmdb.src \in {"none", "pending"}
              /\ \/ req'[r].tmdb.src = "nokey"
                 \/ /\ req'[r].tmdb.src \in {"cache", "fetched"}
                    /\ cache'[TmdbKey(req'[r].q)].value.results = <<>>)
             => req'[r].omdb.src \in {"nokey", "cache", "pending"}
          /\ (req[r].omdb.src = "none" /\ req'[r].omdb.src = "nokey")
             => /\ OMDB_API_KEY = ""
                /\ req'[r].pc = "send"
                /\ req'[r].out = <<TextReply("notfound")>>
          /\ (/\ req[r].omdb.src \in {"none", "pending"}
              /\ req'[r].omdb.src \in {"cache", "fetched"})
             => LET om == cache'[OmdbKey(req'[r].q)].value
                IN  /\ OMDB_API_KEY # ""
                    /\ req'[r].pc = "send"
                    /\ Len(req'[r].out) = 1
                    /\ om.Response = "True" =>
                          /\ req'[r].out[1].msg = "omdb"
                          /\ req'[r].out[1].url \in {"", om.Poster}
                    /\ om.Response # "True" =>
                          req'[r].out = <<TextReply("notfound")>>
      ]_vars

\* C12 witness: TMDB answered with an empty list, OMDB with a match, and the
\* OMDB reply reached the sender; another request, OMDB answering without a
\* match, was told not found
SecondaryAnsweredAfterEmptyPrimary ==
    \E r, s \in Slots :
        /\ req[r].tmdb.src = "fetched" /\ req[r].omdb.src = "fetched"
        /\ req[r].replies = <<PhotoReply("omdb", "http://img/p.jpg")>>
        /\ req[s].omdb.src = "fetched"
        /\ req[s].replies = <<TextReply("notfound")>>

\* C13: text_handler is told "limited" exactly when RL_LIMIT accepted events of
\* the sender lie in the trailing window; in that step the "slow down" notice
\* is set up as the only reply, there is no audit insert and no lookup, and the
\* cache stays as it is; all the request does after that is deliver the one
\* notice and end, the cache again unchanged.
RejectedSenderSuppressed ==
    [][ \A r \in Slots :
          /\ (req[r].pc = "body" /\ req'[r].pc # "body")
             => ((req'[r].rl = "limited") <=>
                    (InTrailingWindow(accepted[UidOf(req[r].sender)], now) >= RL_LIMIT))
          /\ (req[r].rl = "none" /\ req'[r].rl = "limited")
             => /\ req'[r].pc = "send"
                /\ req'[r].out = <<TextReply("slow")>>
                /\ req'[r].replies = <<>>
                /\ req'[r].audit = "none"
                /\ req'[r].tmdb = NoLookup /\ req'[r].omdb = NoLookup
                /\ cache' = cache
          /\ (req[r].rl = "limited" /\ req'[r] # req[r] /\ nreq' = nreq)
             => /\ req'[r] = [req[r] EXCEPT !.pc = "done", !.out = <<>>,
                                            !.replies = <<TextReply("slow")>>]
                /\ cache' = cache
      ]_vars

\* C13 witness: with a database and both keys set, a request was turned away
\* with the one notice while the request accepted just before it was audited
\* and answered from TMDB
SlowDownSentNothingElse ==
    \E r, s \in Slots :
        /\ db /\ TMDB_API_KEY # "" /\ OMDB_API_KEY # ""
        /\ req[r].rl = "limited" /\ req[r].pc = "done"
        /\ req[r].replies = <<TextReply("slow")>>
        /\ req[s].rl = "accepted" /\ req[s].audit = "written"
        /\ req[s].pc = "done" /\ req[s].replies[1].msg = "tmdb"

\* C14: the step that ends the audit insert, whether the insert returned or
\* raised, carries the request on into tmdb_search: the request does not end
\* there, and but for the note of how the insert went it is then exactly where
\* a request without database is after the rate check, in the same cache at
\* the same time; the step itself changes neither the cache nor any window.
AuditNeverChangesOutcome ==
    [][ \A r \in Slots :
          req[r].pc = "audit" /\ req'[r] # req[r]
          => /\ req'[r].audit \in {"written", "failed"}
             /\ req'[r].pc \in {"tmdb", "omdb", "send"}
             /\ [req'[r] EXCEPT !.audit = "none"] =
                   tmdb_search([req[r] EXCEPT !.audit = "none"], cache, now)
             /\ UNCHANGED <<cache, user_events>>
      ]_vars

\* C14 witness: two requests, the insert of one having failed and of the other
\* succeeded, were both answered from TMDB with the same reply
FailedAuditSameReply ==
    \E r, s \in Slots :
        /\ req[r].audit = "failed" /\ req[s].audit = "written"
        /\ req[r].pc = "done" /\ req[s].pc = "done"
        /\ req[r].replies = req[s].replies
        /\ req[r].replies = <<PhotoReply("tmdb", "https://image.tmdb.org/t/p/w500/abc.jpg")>>

\* how far along a request is: received, rate check passed and insert
\* awaited, TMDB awaited, OMDB awaited, reply on its way, ended
StageRank(pc) ==
    CASE pc = "idle" -> 0
      [] pc = "body" -> 1
      [] pc = "audit" -> 2
      [] pc = "tmdb" -> 3
      [] pc = "omdb" -> 4
      [] pc = "send" -> 5
      [] OTHER -> 6

\* a lookup call that has returned a value to text_handler
Returned(lk) == lk.src \in {"nokey", "cache", "fetched"}

\* what a request has done so far fits the order authenticate, rate check,
\* audit, resolve (TMDB, then OMDB), render
StagesInOrder(rec) ==
    /\ rec.rl # "none" => Authentic(rec.token, rec.secret)
    /\ rec.audit # "none" => rec.rl = "accepted" /\ db
    /\ rec.tmdb.src # "none" =>
          /\ rec.rl = "accepted"
          /\ rec.audit # "pending"
          /\ ~db => rec.audit = "none"
          /\ db => rec.audit \in {"written", "failed"}
    /\ rec.omdb.src # "none" => Returned(rec.tmdb)
    /\ (rec.out # <<>> \/ rec.replies # <<>>) =>
          \/ rec.rl = "limited"
          \/ /\ Returned(rec.tmdb)
             /\ Returned(rec.omdb) \/ rec.omdb.src = "none"
    /\ (rec.pc = "audit") <=> (rec.audit = "pending")
    /\ (rec.pc = "tmdb") <=> (rec.tmdb.src = "pending")
    /\ (rec.pc = "omdb") <=> (rec.omdb.src = "pending")
    /\ (rec.pc = "send") <=> (rec.out # <<>>)

\* C15: at every moment what each request has done fits the order
\* authenticate, rate check, audit, resolve, render: the rate check is made
\* only for a request that passed both checks of webhook(), the insert only
\* after the rate check accepted, a lookup only once the insert (made whenever
\* a database is set) has ended, OMDB only once TMDB returned, a reply is set
\* up only once the lookups made have returned; a request waits on one thing
\* at a time and every step of a request moves it forward.
StagesStrictlyOrdered ==
    [][ \A r \in Slots :
          /\ StagesInOrder(req'[r])
          /\ (req'[r] # req[r] /\ nreq' = nreq)
             => StageRank(req'[r].pc) > StageRank(req[r].pc)
      ]_vars

\* C15 witness: one request has gone through every stage (audited, TMDB
\* fetched, OMDB fetched, reply delivered) while the other is still awaiting
\* its insert
AllStagesPassedWhileOtherWaits ==
    \E r, s \in Slots :
        /\ req[r].pc = "done" /\ req[r].rl = "accepted" /\ req[r].audit = "written"
        /\ req[r].tmdb.src = "fetched" /\ req[r].omdb.src = "fetched"
        /\ Len(req[r].replies) = 1
        /\ req[s].pc = "audit"

\* s is the last Len(s) elements of q
IsSuffix(s, q) == Len(s) <= Len(q) /\ s = SubSeq(q, Len(q) - Len(s) + 1, Len(q))

\* a request that is at one of its suspension points
InFlight(rec) == rec.pc \in {"body", "audit", "tmdb", "omdb", "send"}

\* C16: however the steps of the requests interleave, the window of each
\* sender is what its accepted events make it: it is a tail of the sender's
\* accepted events that holds every one of them not older than the window (none
\* is lost); a request's rate check adds exactly its own event when it accepts
\* and none when it rejects, and no other step of any request touches a
\* window; the event RL_LIMIT places after any accepted event of a sender is
\* more than RL_WINDOW seconds later.
WindowsAtomicUnderInterleaving ==
    [][ /\ \A u \in Uids :
              /\ IsSuffix(Events(user_events', u), accepted'[u])
              /\ IsSuffix(NotOlder(accepted'[u], now'), Events(user_events', u))
              /\ \A i \in 1..(Len(accepted'[u]) - RL_LIMIT) :
                    accepted'[u][i + RL_LIMIT] - accepted'[u][i] > RL_WINDOW
        /\ \A r \in Slots :
              (req[r].pc = "body" /\ req'[r].pc # "body")
              => LET u == UidOf(req[r].sender)
                 IN  /\ req'[r].rl = "accepted" =>
                          /\ accepted'[u] = Append(accepted[u], now)
                          /\ user_events'[u][Len(user_events'[u])] = now
                     /\ req'[r].rl = "limited" =>
                          /\ accepted'[u] = accepted[u]
                          /\ user_events'[u] = user_events[u]
                     /\ \A v \in Uids \ {u} :
                          /\ accepted'[v] = accepted[v]
                          /\ Events(user_events', v) = Events(user_events, v)
        /\ (\A r \in Slots : ~(req[r].pc = "body" /\ req'[r].pc # "body"))
           => UNCHANGED <<user_events, accepted>>
      ]_vars

\* C16 witness: two requests of one sender are in flight at once, the first
\* accepted into the last free place of the window and awaiting its lookup, the
\* second rejected in the same second and awaiting the delivery of its notice
AcceptedAndRejectedInFlight ==
    \E r, s \in Slots :
        /\ InFlight(req[r]) /\ req[r].rl = "accepted" /\ req[r].pc \in {"tmdb", "omdb"}
        /\ InFlight(req[s]) /\ req[s].rl = "limited"
        /\ Len(user_events[1]) = RL_LIMIT
        /\ user_events[1] = accepted[1]

\* C17: the step that sets up the reply for a found result sets up exactly
\* one: for a TMDB result a photo at the image base URL followed by the first
\* result's poster_path when that path is not empty, the caption as text when
\* it is; for an OMDB result a photo at the answer's Poster when that is
\* neither empty nor "N/A", the caption as text when it is; the delivery hands
\* over exactly what was set up, and a request never has more than one reply
\* set up or delivered.
FoundResultOneReply ==
    [][ \A r \in Slots :
          /\ (req[r].out = <<>> /\ req'[r].out # <<>> /\ req'[r].out[1].msg = "tmdb")
             => LET poster == cache'[TmdbKey(req'[r].q)].value.results[1].poster_path
                IN  req'[r].out =
                       IF poster # ""
                       THEN <<[kind |-> "photo", msg |-> "tmdb",
                               url |-> "https://image.tmdb.org/t/p/w500" \o poster]>>
                       ELSE <<[kind |-> "text", msg |-> "tmdb", url |-> ""]>>
          /\ (req[r].out = <<>> /\ req'[r].out # <<>> /\ req'[r].out[1].msg = "omdb")
             => LET poster == cache'[OmdbKey(req'[r].q)].value.Poster
                IN  req'[r].out =
                       IF poster # "" /\ poster # "N/A"
                       THEN <<[kind |-> "photo", msg |-> "omdb", url |-> poster]>>
                       ELSE <<[kind |-> "text", msg |-> "omdb", url |-> ""]>>
          /\ (req[r].pc = "send" /\ req'[r].pc = "done")
             => req'[r].replies = req[r].out /\ req'[r].out = <<>>
          /\ Len(req'[r].out) + Len(req'[r].replies) <= 1
      ]_vars

\* C17 witness: a TMDB result with a poster went out as a photo at the
\* prefixed URL, and an OMDB result whose Poster is "N/A" as plain text
PhotoAndSentinelTextDelivered ==
    \E r, s \in Slots :
        /\ req[r].pc = "done"
        /\ req[r].replies = <<PhotoReply("tmdb", "https://image.tmdb.org/t/p/w500/abc.jpg")>>
        /\ req[s].pc = "done" /\ req[s].omdb.src = "fetched"
        /\ req[s].replies = <<TextReply("omdb")>>
        /\ cache[OmdbKey(req[s].q)].value.Poster = "N/A"

\* C18: a lookup that begins while the cache holds no entry for its key sends
\* its own GET, whether or not another request's GET for that key is under way;
\* and the step in which a GET returns its answer puts that answer into the
\* cache under the key, with the expiry TTL after the moment that lookup
\* began, whatever entry was there and whatever its expiry, touching no other
\* key: the entry left is that of the GET that returned last.
LastWriterWins ==
    [][ \A r \in Slots :
          /\ (/\ req[r].tmdb.src = "none" /\ Looked(req'[r].tmdb)
              /\ TmdbKey(req'[r].q) \notin DOMAIN cache)
             => req'[r].pc = "tmdb" /\ req'[r].tmdb.calls = 1
          /\ (/\ req[r].omdb.src = "none" /\ Looked(req'[r].omdb)
              /\ OmdbKey(req'[r].q) \notin DOMAIN cache)
             => req'[r].pc = "omdb" /\ req'[r].omdb.calls = 1
          /\ (req[r].pc = "tmdb" /\ req'[r].tmdb.src = "fetched")
             => LET key == TmdbKey(req[r].q)
                IN  /\ key \in DOMAIN cache'
                    /\ cache'[key].expiry = req[r].tmdb.now + CACHE_TTL_SECONDS
                    /\ cache'[key].value \in TmdbData
                    /\ HasResults(<<cache'[key].value>>) <=>
                          (req'[r].out # <<>> /\ req'[r].out[1].msg = "tmdb")
                    /\ \A k \in DOMAIN cache' \ {key} : k \in DOMAIN cache /\ cache'[k] = cache[k]
          /\ (req[r].pc = "omdb" /\ req'[r].omdb.src = "fetched")
             => LET key == OmdbKey(req[r].q)
                IN  /\ key \in DOMAIN cache'
                    /\ cache'[key].expiry = req[r].omdb.now + CACHE_TTL_SECONDS
                    /\ cache'[key].value \in OmdbData
                    /\ (cache'[key].value.Response = "True") <=>
                          (req'[r].out[1].msg = "omdb")
                    /\ \A k \in DOMAIN cache' \ {key} : k \in DOMAIN cache /\ cache'[k] = cache[k]
      ]_vars

\* C18 witness: two requests raced on one cold TMDB key, each sent its GET,
\* the one that began later stored first, and the entry now in the cache is
\* the one of the request that began earlier: its answer, expiring sooner than
\* the entry it replaced
EarlierCallerOverwroteLaterExpiry ==
    \E r, s \in Slots :
        /\ req[r].tmdb.src = "fetched" /\ req[r].tmdb.calls = 1
        /\ req[s].tmdb.src = "fetched" /\ req[s].tmdb.calls = 1
        /\ req[r].tmdb.now < req[s].tmdb.now
        /\ req[s].pc = "done" /\ req[s].replies[1].msg = "tmdb"
        /\ req[r].pc = "omdb"
        /\ cache[TmdbKey(req[r].q)].expiry = req[r].tmdb.now + CACHE_TTL_SECONDS
        /\ cache[TmdbKey(req[r].q)].value.results = <<>>

\* the entries of cache c under keys of the tmdb namespace
TmdbEntries(c) == {<<k, c[k]>> : k \in {x \in DOMAIN c : Head(x) = "tmdb:"}}

\* C19: when a lookup begins for a title that, letter case aside, is the title
\* of another request whose lookup of the same service fetched and stored its
\* answer, that entry still being the one in the cache and less than TTL
\* having passed since that lookup began, it is answered from the cache and
\* sends no GET; every key belongs to one service, a TMDB step changes no OMDB
\* entry and an OMDB step no TMDB entry, and each entry holds an answer of its
\* own service.
KeysFoldCaseAndKeepApart ==
    [][ /\ \A r, s \in Slots :
              /\ (/\ r # s
                  /\ req[r].tmdb.src = "none" /\ Looked(req'[r].tmdb)
                  /\ req[s].tmdb.src = "fetched"
                  /\ Lower(req'[r].q) = Lower(req[s].q)
                  /\ TmdbKey(req[s].q) \in DOMAIN cache
                  /\ cache[TmdbKey(req[s].q)].expiry = req[s].tmdb.now + CACHE_TTL_SECONDS
                  /\ now - req[s].tmdb.now < CACHE_TTL_SECONDS)
                 => req'[r].tmdb.src = "cache" /\ req'[r].tmdb.calls = 0
              /\ (/\ r # s
                  /\ req[r].omdb.src = "none" /\ Looked(req'[r].omdb)
                  /\ req[s].omdb.src = "fetched"
                  /\ Lower(req'[r].q) = Lower(req[s].q)
                  /\ OmdbKey(req[s].q) \in DOMAIN cache
                  /\ cache[OmdbKey(req[s].q)].expiry = req[s].omdb.now + CACHE_TTL_SECONDS
                  /\ now - req[s].omdb.now < CACHE_TTL_SECONDS)
                 => req'[r].omdb.src = "cache" /\ req'[r].omdb.calls = 0
        /\ \A k \in DOMAIN cache' :
              \/ Head(k) = "tmdb:" /\ cache'[k].value \in TmdbData
              \/ Head(k) = "omdb:" /\ cache'[k].value \in OmdbData
        /\ (\E r \in Slots : req[r].pc = "tmdb" /\ req'[r].pc # "tmdb")
           => OmdbEntries(cache') = OmdbEntries(cache)
        /\ (\E r \in Slots : req[r].pc = "omdb" /\ req'[r].pc # "omdb")
           => TmdbEntries(cache') = TmdbEntries(cache)
      ]_vars

\* C19 witness: "Ab" was fetched from both services, and "aB", asked within
\* the TTL, was answered from the TMDB entry and then from the OMDB entry
\* without a GET
OtherCasingServedFromCache ==
    \E r, s \in Slots :
        /\ req[s].q = <<"A", "b">> /\ req[r].q = <<"a", "B">>
        /\ req[s].tmdb.src = "fetched" /\ req[s].omdb.src = "fetched"
        /\ req[r].tmdb.src = "cache" /\ req[r].omdb.src = "cache"
        /\ req[r].tmdb.calls = 0 /\ req[r].omdb.calls = 0
        /\ req[r].tmdb.now > req[s].tmdb.now
        /\ DOMAIN cache = {<<"tmdb:", "a", "b">>, <<"omdb:", "a", "b">>}

\* C20: a request sends at most one GET to TMDB and at most one to OMDB: the
\* step in which a GET of it fails or returns sends no further GET to that
\* service, nor does any later step of the request; the count of a request's
\* GETs to a service only ever goes from 0 to 1, in the step in which its
\* lookup misses the cache.
OneUpstreamCallPerResolve ==
    [][ \A r \in Slots :
          /\ req'[r].tmdb.calls <= 1 /\ req'[r].omdb.calls <= 1
          /\ (req[r].pc = "tmdb" /\ req'[r] # req[r])
             => /\ req'[r].tmdb.calls = req[r].tmdb.calls
                /\ req'[r].pc # "tmdb"
          /\ (req[r].pc = "omdb" /\ req'[r] # req[r])
             => /\ req'[r].omdb.calls = req[r].omdb.calls
                /\ req'[r].tmdb.calls = req[r].tmdb.calls
                /\ req'[r].pc # "omdb"
          /\ (nreq' = nreq /\ req'[r].tmdb.calls # req[r].tmdb.calls)
             => /\ req[r].tmdb.src = "none" /\ req'[r].tmdb.src = "pending"
                /\ ~CacheLive(CacheGet(cache, TmdbKey(req'[r].q)), now)
          /\ (nreq' = nreq /\ req'[r].omdb.calls # req[r].omdb.calls)
             => /\ req[r].omdb.src = "none" /\ req'[r].omdb.src = "pending"
                /\ ~CacheLive(CacheGet(cache, OmdbKey(req'[r].q)), now)
      ]_vars

\* C20 witness: a request got an empty list from its one TMDB GET and its one
\* OMDB GET failed, ending it; a later request for the same title has missed
\* the cache for OMDB and sent that GET anew
FailedOnceThenLaterRequestAsks ==
    \E r, s \in Slots :
        /\ req[s].pc = "raised"
        /\ req[s].tmdb.src = "fetched" /\ req[s].tmdb.calls = 1
        /\ req[s].omdb.src = "raised" /\ req[s].omdb.calls = 1
        /\ req[r].pc = "omdb" /\ req[r].omdb.calls = 1
        /\ req[r].omdb.now > req[s].omdb.now
        /\ req[r].q = req[s].q
====
